---- MODULE Spec2Model ----
(***************************************************************************)
(* A model of scripts/scrape.py, the BMTC GTFS scraper: the route-list     *)
(* fetch and the four collection drivers (route ids, routelines,           *)
(* timetables, stop lists), each run against a directory of files and an   *)
(* upstream API whose answers are chosen nondeterministically.             *)
(*                                                                         *)
(* Strings are sequences of one-character strings, so that strip(),        *)
(* replace() and the [:3] slice are computed as Python computes them.      *)
(***************************************************************************)
EXTENDS Integers, Sequences, FiniteSets, TLC

(***************************************************************************)
(* Bounds of the model.                                                    *)
(***************************************************************************)
\* longest route list (routes['data']) a run is given
MaxRoutes == 2
\* most files a target directory holds when a driver starts
MaxFiles == 1
\* most midnights that pass during one run of a driver
MaxMidnights == 1
\* most runs of a driver, one after the other on the same route list
MaxRuns == 2
\* longest route list a run of the whole script is given
MainRoutes == 1

(***************************************************************************)
(* Program constants.                                                      *)
(***************************************************************************)
\* for _ in range(1, 100): the retry loop of get_stop_lists makes 99 passes
NumPasses == 99
\* for day in range(1, 8): the candidate dates are now+1 .. now+7
NumDays == 7

FILE_EXTENSION == <<".json">>

(***************************************************************************)
(* Strings.                                                                *)
(***************************************************************************)
SP == " "
SUFFIX_UP == <<" ", "U", "P">>
SUFFIX_DOWN == <<" ", "D", "O", "W", "N">>

\* the route numbers the route lists are drawn from: a number with a
\* trailing blank, and the two directions of one route family
RNO_60_BLANK == <<"6", "0", " ">>
RNO_500A_UP == <<"5", "0", "0", "A", " ", "U", "P">>
RNO_500A_DOWN == <<"5", "0", "0", "A", " ", "D", "O", "W", "N">>
RouteNos == {RNO_60_BLANK, RNO_500A_UP, RNO_500A_DOWN}

\* code points of the characters used, for sorted()
CharCode(c) ==
    CASE c = " " -> 32
      [] c = "0" -> 48
      [] c = "5" -> 53
      [] c = "6" -> 54
      [] c = "A" -> 65
      [] c = "D" -> 68
      [] c = "N" -> 78
      [] c = "O" -> 79
      [] c = "P" -> 80
      [] c = "U" -> 85
      [] c = "W" -> 87
      [] OTHER -> 127

\* str.strip(): leading and trailing whitespace removed
RECURSIVE LStrip(_)
LStrip(s) ==
    IF s # <<>> /\ Head(s) = SP THEN LStrip(Tail(s)) ELSE s

RECURSIVE RStrip(_)
RStrip(s) ==
    IF s # <<>> /\ s[Len(s)] = SP THEN RStrip(SubSeq(s, 1, Len(s) - 1)) ELSE s

Strip(s) == RStrip(LStrip(s))

\* str.replace(old, ""): every non-overlapping occurrence of old, found
\* left to right, is removed
RECURSIVE Remove(_, _)
Remove(s, old) ==
    IF Len(s) < Len(old) THEN s
    ELSE IF SubSeq(s, 1, Len(old)) = old
         THEN Remove(SubSeq(s, Len(old) + 1, Len(s)), old)
         ELSE <<Head(s)>> \o Remove(Tail(s), old)

\* route.replace(" UP", "").replace(" DOWN", ""): the route family name
RouteParentName(route) == Remove(Remove(route, SUFFIX_UP), SUFFIX_DOWN)

\* route[:3]
Prefix3(route) == SubSeq(route, 1, IF Len(route) < 3 THEN Len(route) ELSE 3)

\* name + FILE_EXTENSION
FileName(name) == name \o FILE_EXTENSION

\* Python's order on strings: by code point, a proper prefix first
RECURSIVE StrLess(_, _)
StrLess(a, b) ==
    IF b = <<>> THEN FALSE
    ELSE IF a = <<>> THEN TRUE
    ELSE IF Head(a) = Head(b) THEN StrLess(Tail(a), Tail(b))
    ELSE CharCode(Head(a)) < CharCode(Head(b))

\* sorted(set(...)): the elements of S in increasing order
RECURSIVE SortedSeq(_)
SortedSeq(S) ==
    IF S = {} THEN <<>>
    ELSE LET m == CHOOSE x \in S : \A y \in S \ {x} : StrLess(x, y)
         IN  <<m>> \o SortedSeq(S \ {m})

\* list.reverse()
Reverse(s) == [j \in 1..Len(s) |-> s[Len(s) + 1 - j]]

\* [x for x in s if P]: the subsequence of s of the elements in Keep
RECURSIVE Filter(_, _)
Filter(s, Keep) ==
    IF s = <<>> THEN <<>>
    ELSE IF Head(s) \in Keep THEN <<Head(s)>> \o Filter(Tail(s), Keep)
    ELSE Filter(Tail(s), Keep)

\* list.remove(x): the first occurrence of x is removed
RECURSIVE RemoveFirst(_, _)
RemoveFirst(s, x) ==
    IF s = <<>> THEN <<>>
    ELSE IF Head(s) = x THEN Tail(s)
    ELSE <<Head(s)>> \o RemoveFirst(Tail(s), x)

Range(s) == {s[j] : j \in 1..Len(s)}

\* the number of occurrences of x in s
Occurrences(s, x) == Cardinality({j \in 1..Len(s) : s[j] = x})

\* the sequences over S of length at most n
SeqsUpTo(S, n) == UNION {[1..m -> S] : m \in 0..n}

(***************************************************************************)
(* Directories: a function from the file names present to their contents.  *)
(***************************************************************************)
EmptyDir == [f \in {} |-> "none"]

\* os.listdir(directory_path)
ListDir(dir) == DOMAIN dir

\* with open(path, 'w') as f: f.write(text)
WriteFile(dir, name, text) ==
    [f \in (DOMAIN dir) \cup {name} |-> IF f = name THEN text ELSE dir[f]]

\* a directory holding, with contents from Contents, at most MaxFiles of
\* the files Names
DirsOver(Names, Contents) ==
    UNION {[S -> Contents] : S \in {T \in SUBSET Names : Cardinality(T) <= MaxFiles}}

(***************************************************************************)
(* The upstream API.                                                       *)
(***************************************************************************)
OK == 200
\* the status codes of a failed request
FailureCodes == {500}

\* response.text of the route-list, route-points and timetable endpoints
Texts == {"text1", "text2"}
\* what a file that was on disk before the run holds
OldText == "old"

\* one record of a route-search response: data[j]
SearchRecord(no, id) == [routeno |-> no, routeparentid |-> id]
RNO_500A == <<"5", "0", "0", "A">>
\* response.text of the route-search endpoint: the parsed 'data' list, or a
\* JSON body with no 'data' key
SearchTexts ==
    { [has_data |-> TRUE, data |-> <<SearchRecord(RNO_500A, 1)>>],
      [has_data |-> TRUE,
       data |-> <<SearchRecord(RNO_500A, 2), SearchRecord(RNO_60_BLANK, 3)>>],
      [has_data |-> FALSE, data |-> <<>>] }

DATA_NOT_FOUND == "Data not found"
\* response.json() of the route-details endpoint: its message and the
\* lengths of up.data and down.data
DetailTexts ==
    [message : {""}, up : {0, 1}, down : {0, 1}]
        \cup {[message |-> DATA_NOT_FOUND, up |-> 0, down |-> 0]}
\* a stop list that was on disk before the run
OldDetail == [message |-> "old", up |-> 1, down |-> 1]
NoDetail == [message |-> "none", up |-> 0, down |-> 0]

(***************************************************************************)
(* State.                                                                  *)
(***************************************************************************)
VARIABLES
    driver,           \* the function that is running
    pc,               \* where it is: "start", "days", "loop", "scan", "done", "raised"
    routes,           \* routes['data'], as the list of its routeno fields
    fs,               \* the working directory: one directory per category
    dir_list,         \* the driver's snapshot of its directory
    k,                \* the position of the for loop in its list (from 1)
    today,            \* the weekday of datetime.now() when the driver first
                      \* reads it, 0 = Monday
    day,              \* get_timetables: the loop variable day
    pending_routes,   \* get_route_ids, get_stop_lists: pending_routes
    routes_prefix,    \* get_route_ids: routes_prefix
    route_parents,    \* the route family map
    pass,             \* get_stop_lists: the pass of the retry loop (from 1)
    routeparentname,  \* get_stop_lists: its local routeparentname
    ret,              \* get_routes: the response returned
    ev,               \* what the last step did: request, writes, log
    attempts,         \* per key, the requests issued for it in this pass
                      \* over the list (.pass) and in this run (.run; in
                      \* get_stop_lists .run is kept for the keys no entry
                      \* of which has left pending_routes)
    requested,        \* the keys a request was issued for in this run
    midnights,        \* the midnights that have passed since that reading
    mondays,          \* get_timetables: the dates the route loop was entered
                      \* for, the last of them being its local date, as
                      \* days since the Monday of the week the run began in
    failed,           \* the drivers that make one pass: the keys a request
                      \* of this run returned another status than 200 for
    runs              \* what the earlier runs of the driver requested and
                      \* which of their requests failed, oldest first

vars == <<driver, pc, routes, fs, dir_list, k, today, day, pending_routes,
          routes_prefix, route_parents, pass, routeparentname, ret, ev,
          attempts, requested, midnights, mondays, failed, runs>>

Drivers == {"get_routes", "get_route_ids", "get_routelines", "get_timetables",
            "get_stop_lists"}

Unbound == <<"unbound">>
NoResponse == [status_code |-> 0, text |-> "none"]
NoKey == <<>>

ROUTES_JSON == <<"routes">> \o FILE_EXTENSION

\* the keys requests are issued for: route numbers and their prefixes
Keys == RouteNos \cup {Prefix3(r) : r \in RouteNos}

\* a step's record: the request it issued (status 0: none), whether the
\* pacer ran before it, the files it wrote, those of them that existed, and
\* the level it logged at
Event(op, key, status, paced, wrote, over, log, json) ==
    [op |-> op, key |-> key, status |-> status, paced |-> paced,
     wrote |-> wrote, over |-> over, log |-> log, json |-> json]

Quiet(op) == Event(op, NoKey, 0, FALSE, {}, {}, "none", NoDetail)

EmptyFs ==
    [root |-> EmptyDir, routelines |-> EmptyDir, timetables |-> EmptyDir,
     routeids |-> EmptyDir, stops |-> EmptyDir]

\* one more request for key
Count(key) ==
    [attempts EXCEPT ![key] = [run |-> @.run + 1, pass |-> @.pass + 1]]

\* the state in which driver d is called on route list rs, directory
\* tree f, route family map rp, on weekday td
Called(d, rs, f, rp, td) ==
    /\ driver = d
    /\ pc = "start"
    /\ routes = rs
    /\ fs = f
    /\ route_parents = rp
    /\ today = td
    /\ day = 0
    /\ dir_list = {}
    /\ k = 0
    /\ pending_routes = <<>>
    /\ routes_prefix = <<>>
    /\ pass = 0
    /\ routeparentname = Unbound
    /\ ret = NoResponse
    /\ ev = Quiet("call")
    /\ attempts = [x \in Keys |-> [run |-> 0, pass |-> 0]]
    /\ requested = {}
    /\ midnights = 0
    /\ mondays = <<>>
    /\ failed = {}
    /\ runs = <<>>

NoMap == [x \in {} |-> 0]

(***************************************************************************)
(* get_routes                                                              *)
(***************************************************************************)
InitGetRoutes ==
    \E d \in DirsOver({ROUTES_JSON}, {OldText}) :
        Called("get_routes", <<>>, [EmptyFs EXCEPT !.root = d], NoMap, 0)

\* status 200: routes.json is written with response.text
GetRoutesOk ==
    /\ driver = "get_routes" /\ pc = "start"
    /\ \E text \in Texts :
        /\ fs' = [fs EXCEPT !.root = WriteFile(@, ROUTES_JSON, text)]
        /\ ret' = [status_code |-> OK, text |-> text]
        /\ ev' = Event("get_routes", NoKey, OK, FALSE, {ROUTES_JSON},
                       {ROUTES_JSON} \cap DOMAIN fs.root, "none", NoDetail)
    /\ pc' = "done"
    /\ UNCHANGED <<driver, routes, dir_list, k, today, day, pending_routes,
                   routes_prefix, route_parents, pass, routeparentname,
                   attempts, requested,
                   midnights, mondays, failed, runs>>

\* as GetRoutesFail, had the body been written whatever the status
GetRoutesFailWrites ==
    /\ driver = "get_routes" /\ pc = "start"
    /\ \E code \in FailureCodes, text \in Texts :
        /\ fs' = [fs EXCEPT !.root = WriteFile(@, ROUTES_JSON, text)]
        /\ ret' = [status_code |-> code, text |-> text]
        /\ ev' = Event("get_routes", NoKey, code, FALSE, {ROUTES_JSON},
                       {ROUTES_JSON} \cap DOMAIN fs.root, "error", NoDetail)
    /\ pc' = "done"
    /\ UNCHANGED <<driver, routes, dir_list, k, today, day, pending_routes,
                   routes_prefix, route_parents, pass, routeparentname,
                   attempts, requested,
                   midnights, mondays, failed, runs>>

\* any other status: an error is logged, nothing is written
GetRoutesFail ==
    /\ driver = "get_routes" /\ pc = "start"
    /\ \E code \in FailureCodes, text \in Texts :
        /\ ret' = [status_code |-> code, text |-> text]
        /\ ev' = Event("get_routes", NoKey, code, FALSE, {}, {}, "error", NoDetail)
    /\ pc' = "done"
    /\ UNCHANGED <<driver, routes, fs, dir_list, k, today, day, pending_routes,
                   routes_prefix, route_parents, pass, routeparentname,
                   attempts, requested,
                   midnights, mondays, failed, runs>>

(***************************************************************************)
(* get_routelines and get_timetables: one pass over the route list.        *)
(***************************************************************************)
\* if (route['routeno'] + FILE_EXTENSION) in dir_list: continue
ItemSkip(op) ==
    /\ pc = "loop" /\ k <= Len(routes)
    /\ FileName(routes[k]) \in dir_list
    /\ k' = k + 1
    /\ ev' = Quiet(op)
    /\ UNCHANGED <<driver, pc, routes, fs, dir_list, today, day, pending_routes,
                   routes_prefix, route_parents, pass, routeparentname, ret,
                   attempts, requested,
                   midnights, mondays, failed, runs>>

\* status 200: the response is written to <route_no>.json, route_no being
\* the stripped routeno
ItemSave(op, dirname) ==
    /\ pc = "loop" /\ k <= Len(routes)
    /\ FileName(routes[k]) \notin dir_list
    /\ LET route_no == Strip(routes[k]) IN
       \E text \in Texts :
        /\ fs' = [fs EXCEPT ![dirname] = WriteFile(@, FileName(route_no), text)]
        /\ ev' = Event(op, routes[k], OK, TRUE, {FileName(route_no)},
                       {FileName(route_no)} \cap DOMAIN fs[dirname], "info", NoDetail)
    /\ k' = k + 1
    /\ attempts' = Count(routes[k])
    /\ requested' = requested \cup {routes[k]}
    /\ UNCHANGED <<driver, pc, routes, dir_list, today, day, pending_routes,
                   routes_prefix, route_parents, pass, routeparentname, ret,
                   midnights, mondays, failed, runs>>

\* as ItemFail, had a failed status been raised (raise_for_status)
ItemFailRaises(op) ==
    /\ pc = "loop" /\ k <= Len(routes)
    /\ FileName(routes[k]) \notin dir_list
    /\ \E code \in FailureCodes :
        ev' = Event(op, routes[k], code, TRUE, {}, {}, "error", NoDetail)
    /\ pc' = "raised"
    /\ attempts' = Count(routes[k])
    /\ requested' = requested \cup {routes[k]}
    /\ failed' = failed \cup {routes[k]}
    /\ UNCHANGED <<driver, routes, fs, dir_list, k, today, day, pending_routes,
                   routes_prefix, route_parents, pass, routeparentname, ret,
                   midnights, mondays, runs>>

\* as ItemFail, had the failed request been tried again at once
ItemFailRetries(op) ==
    /\ pc = "loop" /\ k <= Len(routes)
    /\ FileName(routes[k]) \notin dir_list
    /\ attempts[routes[k]].pass <= MaxRoutes
    /\ \E code \in FailureCodes :
        ev' = Event(op, routes[k], code, TRUE, {}, {}, "error", NoDetail)
    /\ k' = k
    /\ attempts' = Count(routes[k])
    /\ requested' = requested \cup {routes[k]}
    /\ failed' = failed \cup {routes[k]}
    /\ UNCHANGED <<driver, pc, routes, fs, dir_list, today, day, pending_routes,
                   routes_prefix, route_parents, pass, routeparentname, ret,
                   midnights, mondays, runs>>

\* any other status: an error is logged and the loop goes on
ItemFail(op) ==
    /\ pc = "loop" /\ k <= Len(routes)
    /\ FileName(routes[k]) \notin dir_list
    /\ \E code \in FailureCodes :
        ev' = Event(op, routes[k], code, TRUE, {}, {}, "error", NoDetail)
    /\ k' = k + 1
    /\ attempts' = Count(routes[k])
    /\ requested' = requested \cup {routes[k]}
    /\ failed' = failed \cup {routes[k]}
    /\ UNCHANGED <<driver, pc, routes, fs, dir_list, today, day, pending_routes,
                   routes_prefix, route_parents, pass, routeparentname, ret,
                   midnights, mondays, runs>>

\* requests.post raises (no connection): nothing catches it
ItemRaise(op) ==
    /\ pc = "loop" /\ k <= Len(routes)
    /\ FileName(routes[k]) \notin dir_list
    /\ ev' = Event(op, routes[k], -1, TRUE, {}, {}, "none", NoDetail)
    /\ pc' = "raised"
    /\ attempts' = Count(routes[k])
    /\ requested' = requested \cup {routes[k]}
    /\ UNCHANGED <<driver, routes, fs, dir_list, k, today, day, pending_routes,
                   routes_prefix, route_parents, pass, routeparentname, ret,
                   midnights, mondays, failed, runs>>

\* the file names get_routelines and get_timetables write
LineFiles == {FileName(Strip(r)) : r \in RouteNos}

InitRouteLines ==
    \E rs \in SeqsUpTo(RouteNos, MaxRoutes), d \in DirsOver(LineFiles, {OldText}) :
        Called("get_routelines", rs, [EmptyFs EXCEPT !.routelines = d], NoMap, 0)

\* os.makedirs(directory_path, exist_ok=True); dir_list = os.listdir(...)
LinesStart ==
    /\ driver = "get_routelines" /\ pc = "start"
    /\ dir_list' = ListDir(fs.routelines)
    /\ k' = 1
    /\ pc' = "loop"
    /\ ev' = Quiet("listdir")
    /\ UNCHANGED <<driver, routes, fs, today, day, pending_routes, routes_prefix,
                   route_parents, pass, routeparentname, ret, attempts, requested,
                   midnights, mondays, failed, runs>>

LinesSkip == driver = "get_routelines" /\ ItemSkip("get_routelines")
LinesSave == driver = "get_routelines" /\ ItemSave("get_routelines", "routelines")
LinesFail == driver = "get_routelines" /\ ItemFail("get_routelines")
LinesRaise == driver = "get_routelines" /\ ItemRaise("get_routelines")

\* the loop is over: the directory is listed again and its size logged
LinesFinish ==
    /\ driver = "get_routelines" /\ pc = "loop" /\ k > Len(routes)
    /\ dir_list' = ListDir(fs.routelines)
    /\ pc' = "done"
    /\ ev' = Event("finish", NoKey, 0, FALSE, {}, {}, "info", NoDetail)
    /\ UNCHANGED <<driver, routes, fs, k, today, day, pending_routes, routes_prefix,
                   route_parents, pass, routeparentname, ret, attempts, requested,
                   midnights, mondays, failed, runs>>

MONDAY == 0
\* (datetime.now() + timedelta(days=n)).strftime("%A"), as a number: the
\* clock is read when the expression is evaluated, today being the weekday
\* at its first reading
Weekday(n) == (today + midnights + n) % 7

\* datetime.now() + timedelta(days=n), in days since the Monday of the week
\* the run began in
Date(n) == today + midnights + n

\* midnight passes while get_timetables runs, after it has read the clock
\* for the first time (day = 1)
Midnight ==
    /\ driver = "get_timetables"
    /\ pc = "loop" \/ (pc = "days" /\ day > 1)
    /\ midnights < MaxMidnights
    /\ midnights' = midnights + 1
    /\ ev' = Quiet("midnight")
    /\ UNCHANGED <<driver, pc, routes, fs, dir_list, k, today, day, pending_routes,
                   routes_prefix, route_parents, pass, routeparentname, ret,
                   attempts, requested, mondays, failed, runs>>

InitTimetables ==
    \E rs \in SeqsUpTo(RouteNos, MaxRoutes), d \in DirsOver(LineFiles, {OldText}),
       td \in 0..6 :
        Called("get_timetables", rs, [EmptyFs EXCEPT !.timetables = d], NoMap, td)

\* for day in range(1, 8)
TimetablesStart ==
    /\ driver = "get_timetables" /\ pc = "start"
    /\ day' = 1
    /\ pc' = "days"
    /\ ev' = Quiet("days")
    /\ UNCHANGED <<driver, routes, fs, dir_list, k, today, pending_routes,
                   routes_prefix, route_parents, pass, routeparentname, ret,
                   attempts, requested,
                   midnights, mondays, failed, runs>>

\* if dow != "Monday": continue
TimetablesSkipDay ==
    /\ driver = "get_timetables" /\ pc = "days" /\ day <= NumDays
    /\ Weekday(day) # MONDAY
    /\ day' = day + 1
    /\ ev' = Quiet("skip day")
    /\ UNCHANGED <<driver, pc, routes, fs, dir_list, k, today, pending_routes,
                   routes_prefix, route_parents, pass, routeparentname, ret,
                   attempts, requested,
                   midnights, mondays, failed, runs>>

\* a Monday: its directory is listed and the routes are gone through
TimetablesDay ==
    /\ driver = "get_timetables" /\ pc = "days" /\ day <= NumDays
    /\ Weekday(day) = MONDAY
    /\ mondays' = Append(mondays, Date(day))
    /\ dir_list' = ListDir(fs.timetables)
    /\ k' = 1
    /\ pc' = "loop"
    /\ attempts' = [x \in Keys |-> [attempts[x] EXCEPT !.pass = 0]]
    /\ ev' = Quiet("listdir")
    /\ UNCHANGED <<driver, routes, fs, today, day, pending_routes, routes_prefix,
                   route_parents, pass, routeparentname, ret, requested,
                   midnights, failed, runs>>

TimetablesSkip == driver = "get_timetables" /\ ItemSkip("get_timetables")
TimetablesSave == driver = "get_timetables" /\ ItemSave("get_timetables", "timetables")
TimetablesFail == driver = "get_timetables" /\ ItemFail("get_timetables")
TimetablesRaise == driver = "get_timetables" /\ ItemRaise("get_timetables")

\* the routes of this day are done: on to the next day
TimetablesNextDay ==
    /\ driver = "get_timetables" /\ pc = "loop" /\ k > Len(routes)
    /\ day' = day + 1
    /\ pc' = "days"
    /\ ev' = Quiet("days")
    /\ UNCHANGED <<driver, routes, fs, dir_list, k, today, pending_routes,
                   routes_prefix, route_parents, pass, routeparentname, ret,
                   attempts, requested,
                   midnights, mondays, failed, runs>>

\* the days are over and none of them was a Monday: directory_path was
\* never assigned, and os.listdir(directory_path) raises UnboundLocalError
TimetablesFinishRaise ==
    /\ driver = "get_timetables" /\ pc = "days" /\ day > NumDays
    /\ mondays = <<>>
    /\ pc' = "raised"
    /\ ev' = Quiet("finish")
    /\ UNCHANGED <<driver, routes, fs, dir_list, k, today, day, pending_routes,
                   routes_prefix, route_parents, pass, routeparentname, ret,
                   attempts, requested, midnights, mondays, failed, runs>>

\* the days are over: the directory is listed again and its size logged
TimetablesFinish ==
    /\ driver = "get_timetables" /\ pc = "days" /\ day > NumDays
    /\ mondays # <<>>
    /\ dir_list' = ListDir(fs.timetables)
    /\ pc' = "done"
    /\ ev' = Event("finish", NoKey, 0, FALSE, {}, {}, "info", NoDetail)
    /\ UNCHANGED <<driver, routes, fs, k, today, day, pending_routes, routes_prefix,
                   route_parents, pass, routeparentname, ret, attempts, requested,
                   midnights, mondays, failed, runs>>

(***************************************************************************)
(* get_route_ids                                                           *)
(***************************************************************************)
PrefixFiles == {FileName(Prefix3(r)) : r \in RouteNos}

InitRouteIds ==
    \E rs \in SeqsUpTo(RouteNos, MaxRoutes), d \in DirsOver(PrefixFiles, SearchTexts) :
        Called("get_route_ids", rs, [EmptyFs EXCEPT !.routeids = d], NoMap, 0)

\* the routes whose family file is not in dir_list are pending; their
\* distinct prefixes, sorted, are what is looked up
RouteIdsStart ==
    /\ driver = "get_route_ids" /\ pc = "start"
    /\ LET listed == ListDir(fs.routeids)
           pending == Filter(routes,
                         {r \in RouteNos : FileName(RouteParentName(r)) \notin listed})
       IN  /\ dir_list' = listed
           /\ pending_routes' = pending
           /\ routes_prefix' = SortedSeq({Prefix3(r) : r \in Range(pending)})
    /\ route_parents' = NoMap
    /\ k' = 1
    /\ pc' = "loop"
    /\ ev' = Quiet("listdir")
    /\ UNCHANGED <<driver, routes, fs, today, day, pass, routeparentname, ret,
                   attempts, requested,
                   midnights, mondays, failed, runs>>

\* if (route + FILE_EXTENSION) in dir_list: continue
RouteIdsSkip ==
    /\ driver = "get_route_ids" /\ pc = "loop" /\ k <= Len(routes_prefix)
    /\ FileName(routes_prefix[k]) \in dir_list
    /\ k' = k + 1
    /\ ev' = Quiet("get_route_ids")
    /\ UNCHANGED <<driver, pc, routes, fs, dir_list, today, day, pending_routes,
                   routes_prefix, route_parents, pass, routeparentname, ret,
                   attempts, requested,
                   midnights, mondays, failed, runs>>

\* status 200: the response is written to routeids/<prefix>.json
RouteIdsSave ==
    /\ driver = "get_route_ids" /\ pc = "loop" /\ k <= Len(routes_prefix)
    /\ FileName(routes_prefix[k]) \notin dir_list
    /\ LET route == routes_prefix[k] IN
       \E text \in SearchTexts :
        /\ fs' = [fs EXCEPT !.routeids = WriteFile(@, FileName(route), text)]
        /\ ev' = Event("get_route_ids", route, OK, TRUE, {FileName(route)},
                       {FileName(route)} \cap DOMAIN fs.routeids, "none", NoDetail)
    /\ k' = k + 1
    /\ attempts' = Count(routes_prefix[k])
    /\ requested' = requested \cup {routes_prefix[k]}
    /\ UNCHANGED <<driver, pc, routes, dir_list, today, day, pending_routes,
                   routes_prefix, route_parents, pass, routeparentname, ret,
                   midnights, mondays, failed, runs>>

\* any other status: an error is logged and the loop goes on
RouteIdsFail ==
    /\ driver = "get_route_ids" /\ pc = "loop" /\ k <= Len(routes_prefix)
    /\ FileName(routes_prefix[k]) \notin dir_list
    /\ \E code \in FailureCodes :
        ev' = Event("get_route_ids", routes_prefix[k], code, TRUE, {}, {}, "error",
                    NoDetail)
    /\ k' = k + 1
    /\ attempts' = Count(routes_prefix[k])
    /\ requested' = requested \cup {routes_prefix[k]}
    /\ failed' = failed \cup {routes_prefix[k]}
    /\ UNCHANGED <<driver, pc, routes, fs, dir_list, today, day, pending_routes,
                   routes_prefix, route_parents, pass, routeparentname, ret,
                   midnights, mondays, runs>>

\* requests.post raises: nothing catches it
RouteIdsRaise ==
    /\ driver = "get_route_ids" /\ pc = "loop" /\ k <= Len(routes_prefix)
    /\ FileName(routes_prefix[k]) \notin dir_list
    /\ ev' = Event("get_route_ids", routes_prefix[k], -1, TRUE, {}, {}, "none",
                   NoDetail)
    /\ pc' = "raised"
    /\ attempts' = Count(routes_prefix[k])
    /\ requested' = requested \cup {routes_prefix[k]}
    /\ UNCHANGED <<driver, routes, fs, dir_list, k, today, day, pending_routes,
                   routes_prefix, route_parents, pass, routeparentname, ret,
                   midnights, mondays, failed, runs>>

\* the orders os.listdir may give the files of a directory in
ListOrders(dir) ==
    {o \in [1..Cardinality(DOMAIN dir) -> DOMAIN dir] :
        \A i, j \in DOMAIN o : i # j => o[i] # o[j]}

\* the records of the files, in the order they are read
RECURSIVE RecordsRead(_, _)
RecordsRead(dir, order) ==
    IF order = <<>> THEN <<>>
    ELSE dir[Head(order)].data \o RecordsRead(dir, Tail(order))

\* route_parents[route['routeno']] = route['routeparentid'], record after
\* record: a later record of the same routeno replaces the earlier one
Merged(recs) ==
    [no \in {recs[j].routeno : j \in DOMAIN recs} |->
        LET last == CHOOSE j \in DOMAIN recs :
                        /\ recs[j].routeno = no
                        /\ \A i \in DOMAIN recs : recs[i].routeno = no => i <= j
        IN  recs[last].routeparentid]

\* as RouteIdsScan, had only the files fetched in this run been merged
RouteIdsScanFetched ==
    /\ driver = "get_route_ids" /\ pc = "loop" /\ k > Len(routes_prefix)
    /\ \A f \in DOMAIN fs.routeids : fs.routeids[f].has_data
    /\ LET fetched == [f \in DOMAIN fs.routeids \ dir_list |-> fs.routeids[f]] IN
       \E order \in ListOrders(fetched) :
        route_parents' = Merged(RecordsRead(fetched, order))
    /\ pc' = "done"
    /\ ev' = Event("finish", NoKey, 0, FALSE, {}, {}, "info", NoDetail)
    /\ UNCHANGED <<driver, routes, fs, dir_list, k, today, day, pending_routes,
                   routes_prefix, pass, routeparentname, ret, attempts, requested,
                   midnights, mondays, failed, runs>>

\* every file now in routeids/ is loaded and merged into route_parents
RouteIdsScan ==
    /\ driver = "get_route_ids" /\ pc = "loop" /\ k > Len(routes_prefix)
    /\ \A f \in DOMAIN fs.routeids : fs.routeids[f].has_data
    /\ \E order \in ListOrders(fs.routeids) :
        route_parents' = Merged(RecordsRead(fs.routeids, order))
    /\ pc' = "done"
    /\ ev' = Event("finish", NoKey, 0, FALSE, {}, {}, "info", NoDetail)
    /\ UNCHANGED <<driver, routes, fs, dir_list, k, today, day, pending_routes,
                   routes_prefix, pass, routeparentname, ret, attempts, requested,
                   midnights, mondays, failed, runs>>

\* a file without a 'data' key: data['data'] raises, nothing catches it
RouteIdsScanRaise ==
    /\ driver = "get_route_ids" /\ pc = "loop" /\ k > Len(routes_prefix)
    /\ \E f \in DOMAIN fs.routeids : ~fs.routeids[f].has_data
    /\ pc' = "raised"
    /\ ev' = Quiet("scan")
    /\ UNCHANGED <<driver, routes, fs, dir_list, k, today, day, pending_routes,
                   routes_prefix, route_parents, pass, routeparentname, ret,
                   attempts, requested,
                   midnights, mondays, failed, runs>>

(***************************************************************************)
(* get_stop_lists: the retry loop.                                         *)
(***************************************************************************)
FILE_UP(routeparentname_) == FileName(routeparentname_ \o SUFFIX_UP)
FILE_DOWN(routeparentname_) == FileName(routeparentname_ \o SUFFIX_DOWN)

StopFiles ==
    {FILE_UP(RouteParentName(r)) : r \in RouteNos}
        \cup {FILE_DOWN(RouteParentName(r)) : r \in RouteNos}

Families == {RouteParentName(r) : r \in RouteNos}

\* the route family maps get_route_ids may have returned
FamilyMaps == UNION {[S -> {1}] : S \in SUBSET Families}

InitStopLists ==
    \E rs \in SeqsUpTo(RouteNos, MaxRoutes), d \in DirsOver(StopFiles, {OldDetail}),
       rp \in FamilyMaps :
        Called("get_stop_lists", rs, [EmptyFs EXCEPT !.stops = d], rp, 0)

\* the routes with no <routeno>.json in dir_list, in reverse order
StopsStart ==
    /\ driver = "get_stop_lists" /\ pc = "start"
    /\ LET listed == ListDir(fs.stops) IN
        /\ dir_list' = listed
        /\ pending_routes' =
              Reverse(Filter(routes, {r \in RouteNos : FileName(r) \notin listed}))
    /\ pass' = 1
    /\ k' = 1
    /\ pc' = "loop"
    /\ ev' = Quiet("listdir")
    /\ UNCHANGED <<driver, routes, fs, today, day, routes_prefix, route_parents,
                   routeparentname, ret, attempts, requested,
                   midnights, mondays, failed, runs>>

\* pending_routes as StopsStart builds it
InitialPending ==
    Reverse(Filter(routes, {r \in RouteNos : FileName(r) \notin dir_list}))

\* every entry of route is still in pending_routes
AllPending(route) ==
    Occurrences(pending_routes, route) = Occurrences(InitialPending, route)

\* one more request for route, counted while all its entries are pending
CountPending(route) ==
    IF AllPending(route) THEN Count(route)
    ELSE [attempts EXCEPT ![route] = [run |-> @.run, pass |-> @.pass + 1]]

\* the for loop has an item left, and it passes the check
\*     if (route + FILE_EXTENSION) in dir_list: continue
StopsAt(route) ==
    /\ driver = "get_stop_lists" /\ pc = "loop"
    /\ k <= Len(pending_routes)
    /\ route = pending_routes[k]
    /\ FileName(route) \notin dir_list

\* the file of the item is in dir_list: the item is passed over.  No state
\* enables this step: pending_routes holds only routes whose file is not in
\* dir_list, and dir_list is not listed again before the loop is over.
StopsSkip ==
    /\ driver = "get_stop_lists" /\ pc = "loop"
    /\ k <= Len(pending_routes)
    /\ FileName(pending_routes[k]) \in dir_list
    /\ k' = k + 1
    /\ ev' = Quiet("get_stop_lists")
    /\ UNCHANGED <<driver, pc, routes, fs, dir_list, today, day, pending_routes,
                   routes_prefix, route_parents, pass, routeparentname, ret,
                   attempts, requested,
                   midnights, mondays, failed, runs>>

\* except Exception: logging.error("Failed {}.json".format(routeparentname)).
\* With routeparentname not yet assigned the handler itself raises
\* (UnboundLocalError) and the function is left; otherwise the error is
\* logged and the loop goes on with the next item.
Handler(route, status, paced, name) ==
    /\ ev' = Event("except", route, status, paced, {}, {}, "error", NoDetail)
    /\ routeparentname' = name
    /\ IF name = Unbound
       THEN pc' = "raised" /\ k' = k
       ELSE pc' = pc /\ k' = k + 1

\* fetch_route_data: route_parents[routeparentname] raises KeyError, before
\* any request
StopsLookupFail ==
    \E route \in RouteNos :
        /\ StopsAt(route)
        /\ RouteParentName(route) \notin DOMAIN route_parents
        /\ Handler(route, 0, TRUE, routeparentname)
        /\ UNCHANGED <<driver, routes, fs, dir_list, today, day, pending_routes,
                       routes_prefix, route_parents, pass, ret, attempts, requested,
                   midnights, mondays, failed, runs>>

\* fetch_route_data: requests.post raises
StopsPostRaise ==
    \E route \in RouteNos :
        /\ StopsAt(route)
        /\ RouteParentName(route) \in DOMAIN route_parents
        /\ Handler(route, -1, TRUE, routeparentname)
        /\ attempts' = CountPending(route)
        /\ requested' = requested \cup {route}
        /\ UNCHANGED <<driver, routes, fs, dir_list, today, day, pending_routes,
                       routes_prefix, route_parents, pass, ret,
                   midnights, mondays, failed, runs>>

\* as StopsFail, had the request been sent without the pacer wait
StopsFailUnpaced ==
    \E route \in RouteNos, code \in FailureCodes :
        /\ StopsAt(route)
        /\ RouteParentName(route) \in DOMAIN route_parents
        /\ routeparentname' = RouteParentName(route)
        /\ ev' = Event("get_stop_lists", route, code, FALSE, {}, {}, "error", NoDetail)
        /\ k' = k + 1
        /\ attempts' = CountPending(route)
        /\ requested' = requested \cup {route}
        /\ UNCHANGED <<driver, pc, routes, fs, dir_list, today, day, pending_routes,
                       routes_prefix, route_parents, pass, ret,
                       midnights, mondays, failed, runs>>

\* if response.status_code != 200: an error is logged, the item stays
StopsFail ==
    \E route \in RouteNos, code \in FailureCodes :
        /\ StopsAt(route)
        /\ RouteParentName(route) \in DOMAIN route_parents
        /\ routeparentname' = RouteParentName(route)
        /\ ev' = Event("get_stop_lists", route, code, TRUE, {}, {}, "error", NoDetail)
        /\ k' = k + 1
        /\ attempts' = CountPending(route)
        /\ requested' = requested \cup {route}
        /\ UNCHANGED <<driver, pc, routes, fs, dir_list, today, day, pending_routes,
                       routes_prefix, route_parents, pass, ret,
                   midnights, mondays, failed, runs>>

\* status 200 with a body that is not JSON: response.json() raises, after
\* routeparentname was assigned
StopsJsonRaise ==
    \E route \in RouteNos :
        /\ StopsAt(route)
        /\ RouteParentName(route) \in DOMAIN route_parents
        /\ Handler(route, OK, TRUE, RouteParentName(route))
        /\ attempts' = CountPending(route)
        /\ requested' = requested \cup {route}
        /\ UNCHANGED <<driver, routes, fs, dir_list, today, day, pending_routes,
                       routes_prefix, route_parents, pass, ret,
                   midnights, mondays, failed, runs>>

\* as StopsDataNotFound, had the item been removed from pending_routes
StopsDataNotFoundDrops ==
    \E route \in RouteNos, json \in DetailTexts :
        /\ StopsAt(route)
        /\ RouteParentName(route) \in DOMAIN route_parents
        /\ json.message = DATA_NOT_FOUND
        /\ routeparentname' = RouteParentName(route)
        /\ ev' = Event("get_stop_lists", route, OK, TRUE, {}, {}, "none", json)
        /\ pending_routes' = RemoveFirst(pending_routes, route)
        /\ k' = k + 1
        /\ attempts' = CountPending(route)
        /\ requested' = requested \cup {route}
        /\ UNCHANGED <<driver, pc, routes, fs, dir_list, today, day,
                       routes_prefix, route_parents, pass, ret,
                   midnights, mondays, failed, runs>>

\* if response.json().get("message", "") == "Data not found": continue
StopsDataNotFound ==
    \E route \in RouteNos, json \in DetailTexts :
        /\ StopsAt(route)
        /\ RouteParentName(route) \in DOMAIN route_parents
        /\ json.message = DATA_NOT_FOUND
        /\ routeparentname' = RouteParentName(route)
        /\ ev' = Event("get_stop_lists", route, OK, TRUE, {}, {}, "none", json)
        /\ k' = k + 1
        /\ attempts' = CountPending(route)
        /\ requested' = requested \cup {route}
        /\ UNCHANGED <<driver, pc, routes, fs, dir_list, today, day, pending_routes,
                       routes_prefix, route_parents, pass, ret,
                   midnights, mondays, failed, runs>>

\* as SaveStoplistData, had the second test read up.data again
SaveStoplistDataUpTwice(dir, json, name) ==
    LET up == IF json.up > 0 THEN WriteFile(dir, FILE_UP(name), json) ELSE dir
    IN  IF json.up > 0 THEN WriteFile(up, FILE_DOWN(name), json) ELSE up

\* save_stoplist_data: '<routeparentname> UP.json' is written when up.data
\* is not empty, '<routeparentname> DOWN.json' when down.data is not empty
SaveStoplistData(dir, json, name) ==
    LET up == IF json.up > 0 THEN WriteFile(dir, FILE_UP(name), json) ELSE dir
    IN  IF json.down > 0 THEN WriteFile(up, FILE_DOWN(name), json) ELSE up

\* the files save_stoplist_data opens for writing
SavedFiles(json, name) ==
    {FILE_UP(name) : x \in {1} \cap {json.up}}
        \cup {FILE_DOWN(name) : x \in {1} \cap {json.down}}

\* as StopsSave, had an item whose response holds no stops been left in
\* pending_routes
StopsSaveKeepsEmpty ==
    \E route \in RouteNos, json \in DetailTexts :
        /\ StopsAt(route)
        /\ RouteParentName(route) \in DOMAIN route_parents
        /\ json.message # DATA_NOT_FOUND
        /\ LET name == RouteParentName(route) IN
            /\ routeparentname' = name
            /\ fs' = [fs EXCEPT !.stops = SaveStoplistData(@, json, name)]
            /\ ev' = Event("get_stop_lists", route, OK, TRUE, SavedFiles(json, name),
                           SavedFiles(json, name) \cap DOMAIN fs.stops, "info", json)
        /\ pending_routes' = IF json.up = 0 /\ json.down = 0 THEN pending_routes
                             ELSE RemoveFirst(pending_routes, route)
        /\ k' = k + 1
        /\ attempts' = CountPending(route)
        /\ requested' = requested \cup {route}
        /\ UNCHANGED <<driver, pc, routes, dir_list, today, day, routes_prefix,
                       route_parents, pass, ret,
                   midnights, mondays, failed, runs>>

\* as StopsSave, had the fetched item been left in pending_routes
StopsSaveKeeps ==
    \E route \in RouteNos, json \in DetailTexts :
        /\ StopsAt(route)
        /\ RouteParentName(route) \in DOMAIN route_parents
        /\ json.message # DATA_NOT_FOUND
        /\ LET name == RouteParentName(route) IN
            /\ routeparentname' = name
            /\ fs' = [fs EXCEPT !.stops = SaveStoplistData(@, json, name)]
            /\ ev' = Event("get_stop_lists", route, OK, TRUE, SavedFiles(json, name),
                           SavedFiles(json, name) \cap DOMAIN fs.stops, "info", json)
        /\ k' = k + 1
        /\ attempts' = CountPending(route)
        /\ requested' = requested \cup {route}
        /\ UNCHANGED <<driver, pc, routes, dir_list, today, day, routes_prefix,
                       route_parents, pass, ret, pending_routes,
                       midnights, mondays, failed, runs>>

\* any other status 200 response: save_stoplist_data, then
\* pending_routes.remove(route); the for loop goes on at the next position
\* of the list as it now is
StopsSave ==
    \E route \in RouteNos, json \in DetailTexts :
        /\ StopsAt(route)
        /\ RouteParentName(route) \in DOMAIN route_parents
        /\ json.message # DATA_NOT_FOUND
        /\ LET name == RouteParentName(route) IN
            /\ routeparentname' = name
            /\ fs' = [fs EXCEPT !.stops = SaveStoplistData(@, json, name)]
            /\ ev' = Event("get_stop_lists", route, OK, TRUE, SavedFiles(json, name),
                           SavedFiles(json, name) \cap DOMAIN fs.stops, "info", json)
        /\ pending_routes' = RemoveFirst(pending_routes, route)
        /\ k' = k + 1
        /\ attempts' = CountPending(route)
        /\ requested' = requested \cup {route}
        /\ UNCHANGED <<driver, pc, routes, dir_list, today, day, routes_prefix,
                       route_parents, pass, ret,
                   midnights, mondays, failed, runs>>

\* as StopsNextPass, had the passes not been counted (a loop that goes on
\* while routes are pending)
StopsNextPassNoCount ==
    /\ driver = "get_stop_lists" /\ pc = "loop"
    /\ k > Len(pending_routes)
    /\ pending_routes # <<>>
    /\ pass' = pass
    /\ k' = 1
    /\ attempts' = [x \in Keys |->
                      [run |-> IF x \in RouteNos /\ AllPending(x)
                               THEN attempts[x].run ELSE 0,
                       pass |-> 0]]
    /\ ev' = Quiet("pass")
    /\ UNCHANGED <<driver, pc, routes, fs, dir_list, today, day, pending_routes,
                   routes_prefix, route_parents, routeparentname, ret, requested,
                   midnights, mondays, failed, runs>>

\* the for loop over pending_routes is over and passes are left: the next
\* pass starts at the head of the list.  The count of a route an entry of
\* which has left the list is dropped.
StopsNextPass ==
    /\ driver = "get_stop_lists" /\ pc = "loop"
    /\ k > Len(pending_routes)
    /\ pass < NumPasses
    /\ pass' = pass + 1
    /\ k' = 1
    /\ attempts' = [x \in Keys |->
                      [run |-> IF x \in RouteNos /\ AllPending(x)
                               THEN attempts[x].run ELSE 0,
                       pass |-> 0]]
    /\ ev' = Quiet("pass")
    /\ UNCHANGED <<driver, pc, routes, fs, dir_list, today, day, pending_routes,
                   routes_prefix, route_parents, routeparentname, ret, requested,
                   midnights, mondays, failed, runs>>

\* the last pass is over: the directory is listed again and its size logged
StopsFinish ==
    /\ driver = "get_stop_lists" /\ pc = "loop"
    /\ k > Len(pending_routes)
    /\ pass = NumPasses
    /\ dir_list' = ListDir(fs.stops)
    /\ pc' = "done"
    /\ ev' = Event("finish", NoKey, 0, FALSE, {}, {}, "info", NoDetail)
    /\ UNCHANGED <<driver, routes, fs, k, today, day, pending_routes, routes_prefix,
                   route_parents, pass, routeparentname, ret, attempts, requested,
                   midnights, mondays, failed, runs>>

(***************************************************************************)
(* The next run: the driver is called again on the same route list and the *)
(* directory the run before left.                                          *)
(***************************************************************************)
Rerun ==
    /\ driver \in {"get_route_ids", "get_routelines", "get_timetables",
                   "get_stop_lists"}
    /\ pc = "done"
    /\ Len(runs) < MaxRuns - 1
    /\ runs' = Append(runs, [requested |-> requested, failed |-> failed])
    /\ pc' = "start"
    /\ today' = (today + midnights) % 7
    /\ midnights' = 0
    /\ mondays' = <<>>
    /\ day' = 0
    /\ dir_list' = {}
    /\ k' = 0
    /\ pending_routes' = <<>>
    /\ routes_prefix' = <<>>
    /\ pass' = 0
    /\ routeparentname' = Unbound
    /\ ev' = Quiet("call")
    /\ attempts' = [x \in Keys |-> [run |-> 0, pass |-> 0]]
    /\ requested' = {}
    /\ failed' = {}
    /\ UNCHANGED <<driver, routes, fs, route_parents, ret>>

\* a route-search response with status 200 and a 'data' list
RouteIdsSaveData ==
    /\ RouteIdsSave
    /\ \A f \in ev'.wrote : fs'.routeids[f].has_data

\* a route-details response with status 200 and stops in a direction
StopsSaveData ==
    /\ StopsSave
    /\ ev'.json.up + ev'.json.down > 0

(***************************************************************************)
(* The specifications: one call of one of the functions.                   *)
(***************************************************************************)
Init ==
    \/ InitGetRoutes
    \/ InitRouteIds
    \/ InitRouteLines
    \/ InitTimetables
    \/ InitStopLists

NextOnePass ==
    \/ GetRoutesOk \/ GetRoutesFail
    \/ RouteIdsStart \/ RouteIdsSkip \/ RouteIdsSave \/ RouteIdsFail
    \/ RouteIdsRaise \/ RouteIdsScan \/ RouteIdsScanRaise
    \/ LinesStart \/ LinesSkip \/ LinesSave \/ LinesFail \/ LinesRaise
    \/ LinesFinish
    \/ TimetablesStart \/ TimetablesSkipDay \/ TimetablesDay \/ TimetablesSkip
    \/ TimetablesSave \/ TimetablesFail \/ TimetablesRaise \/ TimetablesNextDay
    \/ TimetablesFinish \/ TimetablesFinishRaise \/ Midnight

NextStops ==
    \/ StopsStart \/ StopsLookupFail \/ StopsPostRaise \/ StopsFail
    \/ StopsJsonRaise \/ StopsDataNotFound \/ StopsSave \/ StopsNextPass
    \/ StopsFinish

Next == NextOnePass \/ NextStops

\* a call of any of the five functions
Spec == Init /\ [][Next]_vars

\* a call of get_routes or of one of the drivers that make one pass
SpecOnePass ==
    /\ InitGetRoutes \/ InitRouteIds \/ InitRouteLines \/ InitTimetables
    /\ [][NextOnePass]_vars

\* runs of one of the drivers that make one pass, one after the other
SpecRuns ==
    /\ InitGetRoutes \/ InitRouteIds \/ InitRouteLines \/ InitTimetables
    /\ [][NextOnePass \/ Rerun]_vars

NextAllOk ==
    \/ RouteIdsStart \/ RouteIdsSkip \/ RouteIdsSaveData \/ RouteIdsScan
    \/ RouteIdsScanRaise
    \/ LinesStart \/ LinesSkip \/ LinesSave \/ LinesFinish
    \/ TimetablesStart \/ TimetablesSkipDay \/ TimetablesDay \/ TimetablesSkip
    \/ TimetablesSave \/ TimetablesNextDay \/ TimetablesFinish
    \/ TimetablesFinishRaise \/ Midnight
    \/ StopsStart \/ StopsLookupFail \/ StopsSaveData \/ StopsNextPass
    \/ StopsFinish
    \/ Rerun

\* runs of one of the four drivers, one after the other, against an API
\* that answers every request with status 200 and data
SpecAllOk ==
    /\ InitRouteIds \/ InitRouteLines \/ InitTimetables \/ InitStopLists
    /\ [][NextAllOk]_vars

(***************************************************************************)
(* The script: routes.json is loaded and the four drivers are called one   *)
(* after the other.                                                        *)
(***************************************************************************)
\* the directory trees an earlier run may have left: nothing, or files in
\* one of the four directories
MainTrees ==
    {EmptyFs}
        \cup {[EmptyFs EXCEPT !.routeids = d] : d \in DirsOver(PrefixFiles, SearchTexts)}
        \cup {[EmptyFs EXCEPT !.routelines = d] : d \in DirsOver(LineFiles, {OldText})}
        \cup {[EmptyFs EXCEPT !.timetables = d] : d \in DirsOver(LineFiles, {OldText})}
        \cup {[EmptyFs EXCEPT !.stops = d] : d \in DirsOver(StopFiles, {OldDetail})}

\* route_parents = get_route_ids(routes), the first call of the script
InitMain ==
    \E rs \in SeqsUpTo(RouteNos, MainRoutes), f \in MainTrees :
        Called("get_route_ids", rs, f, NoMap, 0)

\* the driver from has returned and the script calls the driver to, on
\* weekday td
Call(from, to, td) ==
    /\ driver = from /\ pc = "done"
    /\ driver' = to
    /\ pc' = "start"
    /\ today' = td
    /\ midnights' = 0
    /\ mondays' = <<>>
    /\ day' = 0
    /\ dir_list' = {}
    /\ k' = 0
    /\ pending_routes' = <<>>
    /\ routes_prefix' = <<>>
    /\ pass' = 0
    /\ routeparentname' = Unbound
    /\ ev' = Quiet("call")
    /\ attempts' = [x \in Keys |-> [run |-> 0, pass |-> 0]]
    /\ requested' = {}
    /\ failed' = {}
    /\ UNCHANGED <<routes, fs, route_parents, ret, runs>>

\* get_routelines(routes)
CallRouteLines == Call("get_route_ids", "get_routelines", 0)

\* as CallTimetables, had get_stop_lists been called before get_timetables
CallStopListsEarly == Call("get_routelines", "get_stop_lists", 0)

\* get_timetables(routes)
CallTimetables == \E td \in 0..6 : Call("get_routelines", "get_timetables", td)

\* get_stop_lists(routes, route_parents)
CallStopLists == Call("get_timetables", "get_stop_lists", 0)

NextMain ==
    \/ RouteIdsStart \/ RouteIdsSkip \/ RouteIdsSave \/ RouteIdsFail
    \/ RouteIdsRaise \/ RouteIdsScan \/ RouteIdsScanRaise
    \/ CallRouteLines
    \/ LinesStart \/ LinesSkip \/ LinesSave \/ LinesFail \/ LinesRaise
    \/ LinesFinish
    \/ CallTimetables
    \/ TimetablesStart \/ TimetablesSkipDay \/ TimetablesDay \/ TimetablesSkip
    \/ TimetablesSave \/ TimetablesFail \/ TimetablesRaise \/ TimetablesNextDay
    \/ TimetablesFinish \/ TimetablesFinishRaise \/ Midnight
    \/ CallStopLists
    \/ NextStops

\* one run of the script
SpecMain == InitMain /\ [][NextMain]_vars

(***************************************************************************)
(* Properties.                                                             *)
(***************************************************************************)
FourDrivers == {"get_route_ids", "get_routelines", "get_timetables",
                "get_stop_lists"}

\* the key the running driver requests for route R
RequestKeyOf(R) == IF driver = "get_route_ids" THEN Prefix3(R) ELSE R

\* the files that stand for route R in the running driver's directory
RepresentingFiles(R) ==
    CASE driver = "get_route_ids" -> {FileName(Prefix3(R))}
      [] driver \in {"get_routelines", "get_timetables"} -> {FileName(Strip(R))}
      [] driver = "get_stop_lists" ->
            IF RouteParentName(R) = R
            THEN {FILE_UP(R), FILE_DOWN(R)}
            ELSE {FileName(R)}
      [] OTHER -> {}

\* C1 (as claimed): in each of the four drivers, a route whose file is in
\* the directory when the driver starts (dir_list, while the loop runs) is
\* not requested during the run.
C1_SkipOnPresence ==
    (driver \in FourDrivers /\ pc = "loop") =>
        \A j \in 1..Len(routes) :
            RepresentingFiles(routes[j]) \cap dir_list # {}
                => RequestKeyOf(routes[j]) \notin requested

\* C2: get_routes returns the response without raising; with status 200
\* routes.json then holds exactly the response body, with any other status
\* the files are as they were and an error was logged.
C2_RouteListFetch ==
    [][(driver = "get_routes" /\ pc = "start") =>
         /\ pc' = "done"
         /\ ret'.status_code # 0
         /\ IF ret'.status_code = OK
            THEN /\ DOMAIN fs'.root = DOMAIN fs.root \cup {ROUTES_JSON}
                 /\ fs'.root[ROUTES_JSON] = ret'.text
                 /\ \A f \in DOMAIN fs.root \ {ROUTES_JSON} : fs'.root[f] = fs.root[f]
            ELSE /\ fs' = fs
                 /\ ev'.log = "error"]_vars

\* C2's case: a failed fetch has returned and there is no routes.json
C2_Witness ==
    /\ driver = "get_routes" /\ pc = "done"
    /\ ret.status_code \in FailureCodes
    /\ ROUTES_JSON \notin DOMAIN fs.root

\* a step of get_stop_lists that went through a status-200 response
\* which the code could parse
Processed == ev'.op = "get_stop_lists" /\ ev'.status = OK

IsEmpty(json) == json.up = 0 /\ json.down = 0

\* C3: a status-200 route-details response that is not "Data not found"
\* writes '<family> UP.json' exactly when up.data is not empty and
\* '<family> DOWN.json' exactly when down.data is not empty, each with the
\* response as its contents, and no other file: as many files as there are
\* directions with data.
C3_StopListSplitting ==
    [][(Processed /\ ev'.json.message # DATA_NOT_FOUND) =>
         LET name == RouteParentName(ev'.key)
             json == ev'.json
         IN  /\ (FILE_UP(name) \in ev'.wrote) <=> (json.up > 0)
             /\ (FILE_DOWN(name) \in ev'.wrote) <=> (json.down > 0)
             /\ ev'.wrote \subseteq {FILE_UP(name), FILE_DOWN(name)}
             /\ Cardinality(ev'.wrote) = json.up + json.down
             /\ DOMAIN fs'.stops = DOMAIN fs.stops \cup ev'.wrote
             /\ \A f \in DOMAIN fs'.stops :
                   fs'.stops[f] = IF f \in ev'.wrote THEN json ELSE fs.stops[f]
             /\ fs' = [fs EXCEPT !.stops = fs'.stops]]_vars

\* C3's case: a response with stops for the up direction only has been
\* saved, as one file
C3_Witness ==
    /\ ev.op = "get_stop_lists" /\ ev.status = OK
    /\ ev.json.up = 1 /\ ev.json.down = 0
    /\ ev.wrote = {FILE_UP(RouteParentName(ev.key))}
    /\ FILE_DOWN(RouteParentName(ev.key)) \notin DOMAIN fs.stops

\* C4 (as claimed): a status-200 response that is not "Data not found" and
\* holds no stops in either direction writes no file and leaves the item in
\* the pending list.
C4_EmptyStaysPending ==
    [][(Processed /\ ev'.json.message # DATA_NOT_FOUND /\ IsEmpty(ev'.json)) =>
         /\ fs' = fs
         /\ pending_routes' = pending_routes]_vars

\* C4 (amended): such a response writes no file and one entry of the item
\* is removed from the pending list, the other entries staying as they are.
C4_EmptyIsRemoved ==
    [][(Processed /\ ev'.json.message # DATA_NOT_FOUND /\ IsEmpty(ev'.json)) =>
         /\ fs' = fs
         /\ ev'.wrote = {}
         /\ Len(pending_routes') = Len(pending_routes) - 1
         /\ \A r \in RouteNos :
               Occurrences(pending_routes', r) =
                   Occurrences(pending_routes, r) - (IF r = ev'.key THEN 1 ELSE 0)]_vars

\* C4's case: the only entry of a route got a response without stops, and
\* the route is no longer pending while no file was written
C4_Witness ==
    /\ ev.op = "get_stop_lists" /\ ev.status = OK
    /\ ev.json.message # DATA_NOT_FOUND /\ IsEmpty(ev.json)
    /\ ev.key \notin Range(pending_routes)
    /\ fs.stops = EmptyDir
    /\ pass < NumPasses

C6_AtMost99Requests ==
    driver = "get_stop_lists" =>
        \A r \in RouteNos : attempts[r].run <= NumPasses

\* C6 (amended): get_stop_lists terminates: every step of its loop moves on
\* in the pass or to the next pass or ends the function, some step is
\* possible until it has ended, and there are at most 99 passes.  In a pass
\* a route is requested at most once per entry it has in the route list, so
\* in p passes at most p times per entry: 99 times per entry in a run.
C6_BoundedRetry ==
    /\ [](driver = "get_stop_lists" =>
            /\ pass <= NumPasses
            /\ k <= Len(routes) + 1
            /\ pc \in {"start", "loop"} => ENABLED Next
            /\ \A r \in RouteNos :
                  /\ attempts[r].pass <= Occurrences(routes, r)
                  /\ attempts[r].run <= pass * Occurrences(routes, r))
    /\ [][(driver = "get_stop_lists" /\ pc = "loop") =>
            \/ pc' \in {"done", "raised"}
            \/ pass' = pass + 1
            \/ pass' = pass /\ k' = k + 1]_vars

\* C6's case: the run is over after 99 passes, and a route that is listed
\* twice was requested in every pass for each of its entries
C6_Witness ==
    /\ driver = "get_stop_lists" /\ pc = "done" /\ pass = NumPasses
    /\ \E r \in Range(pending_routes) :
          /\ Occurrences(routes, r) = 2
          /\ attempts[r].run = NumPasses * 2

\* C7 (as claimed): no write of a driver goes to a path that exists.
C7_NoOverwrite ==
    driver \in FourDrivers => ev.over = {}

\* the item the loop of the running driver is at
CurrentItem ==
    CASE driver = "get_route_ids" -> routes_prefix[k]
      [] driver = "get_stop_lists" -> pending_routes[k]
      [] OTHER -> routes[k]

\* the files the running driver writes for the item key
ItemFiles(key) ==
    CASE driver = "get_route_ids" -> {FileName(key)}
      [] driver = "get_stop_lists" ->
            {FILE_UP(RouteParentName(key)), FILE_DOWN(RouteParentName(key))}
      [] OTHER -> {FileName(Strip(key))}

\* the directory the running driver writes to
TargetDir(f) ==
    CASE driver = "get_route_ids" -> f.routeids
      [] driver = "get_routelines" -> f.routelines
      [] driver = "get_timetables" -> f.timetables
      [] OTHER -> f.stops

\* C8: in the four drivers the files change only in a step that got status
\* 200 for the request of the item the loop is at, and only that item's
\* files; a step that got another status leaves the files and the pending
\* list as they are, logs an error, raises nothing and moves on to the next
\* item.
C8_WriteOnlyOnSuccess ==
    [][(driver \in FourDrivers) =>
         /\ (fs' # fs) =>
               (/\ ev'.status = OK
                /\ ev'.key = CurrentItem
                /\ DOMAIN TargetDir(fs) \subseteq DOMAIN TargetDir(fs')
                /\ \A f \in DOMAIN TargetDir(fs) \ ItemFiles(CurrentItem) :
                      TargetDir(fs')[f] = TargetDir(fs)[f]
                /\ DOMAIN TargetDir(fs') \subseteq
                      DOMAIN TargetDir(fs) \cup ItemFiles(CurrentItem))
         /\ (ev'.status \in FailureCodes) =>
               (/\ ev'.key = CurrentItem
                /\ fs' = fs
                /\ pending_routes' = pending_routes
                /\ ev'.log = "error"
                /\ pc' = pc
                /\ k' = k + 1)
    ]_vars

\* C8's case: the first of two pending stop lists got a failed status, and
\* the loop is at the second
C8_Witness ==
    /\ driver = "get_stop_lists" /\ pc = "loop"
    /\ ev.status \in FailureCodes
    /\ Len(pending_routes) = 2 /\ k = 2
    /\ ev.key = pending_routes[1]
    /\ fs.stops = EmptyDir

\* C9 (as claimed): get_stop_lists never ends by an exception.
C9_ExceptionContained ==
    driver = "get_stop_lists" => pc # "raised"

\* the records of the files in routeids/
ScannedRecords ==
    UNION {Range(fs.routeids[f].data) : f \in DOMAIN fs.routeids}

\* C10 (as claimed): the map get_route_ids returns holds every record of
\* every file in routeids/.
C10_EveryRecord ==
    (driver = "get_route_ids" /\ pc = "done") =>
        \A rec \in ScannedRecords :
            /\ rec.routeno \in DOMAIN route_parents
            /\ route_parents[rec.routeno] = rec.routeparentid

\* C10 (amended): the map get_route_ids returns has an entry for exactly the
\* route numbers of the records of the files in routeids/, those that were
\* there before the run included, and each entry's value is the parent id of
\* a record of that route number; so it holds every record whose route
\* number no other record gives another parent id.
C10_EveryRouteNo ==
    (driver = "get_route_ids" /\ pc = "done") =>
        /\ DOMAIN route_parents = {rec.routeno : rec \in ScannedRecords}
        /\ \A no \in DOMAIN route_parents :
              \E rec \in ScannedRecords :
                  rec.routeno = no /\ rec.routeparentid = route_parents[no]
        /\ \A rec \in ScannedRecords :
              (\A other \in ScannedRecords :
                    other.routeno = rec.routeno
                        => other.routeparentid = rec.routeparentid)
                  => route_parents[rec.routeno] = rec.routeparentid

\* C10's case: get_route_ids has returned a map with the records of a file
\* that was there before the run and of a file fetched in it
C10_Witness ==
    /\ driver = "get_route_ids" /\ pc = "done"
    /\ \E f \in DOMAIN fs.routeids \cap dir_list, g \in DOMAIN fs.routeids \ dir_list :
          /\ fs.routeids[f].data # <<>>
          /\ fs.routeids[g].data # <<>>
          /\ \E rec \in Range(fs.routeids[f].data) :
                rec.routeno \notin {x.routeno : x \in Range(fs.routeids[g].data)}
          /\ g \in ev.wrote \/ requested # {}

\* the earliest Monday strictly after the day the run began on, in days
\* since the Monday of that week
NextMonday ==
    CHOOSE d \in (today + 1)..(today + NumDays) :
        /\ d % 7 = MONDAY
        /\ \A e \in (today + 1)..(d - 1) : e % 7 # MONDAY

\* C11 (as claimed): get_timetables enters the route loop for one date only,
\* the earliest Monday strictly after the day the run began on, whatever
\* that day is; when the day loop is over it has entered it for that date, and every
\* request of the run was issued for it.
C11_OneMondaySelected ==
    driver = "get_timetables" =>
        /\ Len(mondays) <= 1
        /\ \A j \in DOMAIN mondays :
              mondays[j] % 7 = MONDAY /\ mondays[j] = NextMonday
        /\ (day > NumDays \/ requested # {}) => mondays = <<NextMonday>>

\* a request was issued in the last step (status -1: it raised)
RequestIssued == ev.status # 0

\* C12 (as claimed): every request of the program, the route-list fetch
\* included, is sent right after a pacer wait.
C12_EveryRequestPaced ==
    RequestIssued => ev.paced

\* C12 (amended): every request of the four drivers is sent right after a
\* pacer wait of its own, first requests and retries alike; the request of
\* get_routes is sent without one.
C12_DriverRequestsPaced ==
    RequestIssued => (ev.paced <=> driver \in FourDrivers)

\* C12's case: a route that failed in the first pass of get_stop_lists is
\* requested again in the second, after a wait
C12_Witness ==
    /\ driver = "get_stop_lists" /\ pass = 2
    /\ RequestIssued /\ ev.paced
    /\ attempts[ev.key].run = 2

\* C13 (as claimed): when a pass of get_stop_lists over the pending list is
\* over, every entry that is still pending was requested in that pass (the
\* entries whose family the map lacks are left aside: for them the pass
\* ends in the lookup, before the request).
C13_EveryPendingProcessed ==
    (driver = "get_stop_lists" /\ pc = "loop" /\ k > Len(pending_routes)) =>
        \A r \in Range(pending_routes) :
            RouteParentName(r) \in DOMAIN route_parents
                => attempts[r].pass >= Occurrences(pending_routes, r)

\* C14 (as claimed): in get_stop_lists, once an entry of a route number has
\* been fetched (it has left the pending list) and the file of the route
\* number has been written in the run, no request is issued for that route
\* number.
C14_DuplicatesSkipped ==
    [][(driver = "get_stop_lists" /\ pc = "loop" /\ ev'.status # 0) =>
         ~(/\ ~AllPending(ev'.key)
           /\ FileName(ev'.key) \in DOMAIN fs.stops \ dir_list)]_vars

\* C15 (as claimed): with every request answered 200 with data, the run of
\* a driver that follows a completed run on the same route list and the
\* directory that run left issues no request and writes no file.
C15_SecondRunIdle ==
    [][(driver \in FourDrivers /\ runs # <<>>) =>
         (fs' = fs /\ ev'.status = 0 /\ requested' = {})]_vars

OnePassDrivers == {"get_routelines", "get_timetables"}

\* C16 (as claimed): in a run of get_routelines or get_timetables no route
\* is requested more than once; a route whose request returned another
\* status than 200 has no file when the run is over, and the next run
\* requests it again.
C16_SinglePass ==
    driver \in OnePassDrivers =>
        /\ \A r \in RouteNos : attempts[r].run <= 1
        /\ pc = "done" =>
              \A r \in failed : FileName(Strip(r)) \notin DOMAIN TargetDir(fs)
        /\ (pc = "done" /\ runs # <<>>) => runs[Len(runs)].failed \subseteq requested

\* the passes the running driver has begun over the route list
PassesBegun ==
    IF driver = "get_timetables" THEN Len(mondays)
    ELSE IF pc = "start" THEN 0 ELSE 1

\* C16 (amended): in a pass over the route list get_routelines and
\* get_timetables request a route at most once per entry it has in the
\* list; get_routelines makes one pass per run, get_timetables one per date
\* it selects.  A request that returns another status than 200 writes
\* nothing and is not tried again in the pass: the loop moves to the next
\* entry.  A route whose request failed in a run and whose file is missing
\* when a pass of the next run begins is requested in that pass.
C16_SinglePassPerEntry ==
    /\ [](driver \in OnePassDrivers =>
            /\ PassesBegun <= (IF driver = "get_routelines" THEN 1 ELSE NumDays)
            /\ \A r \in RouteNos :
                  /\ attempts[r].pass <= Occurrences(routes, r)
                  /\ attempts[r].run <= PassesBegun * Occurrences(routes, r)
            /\ (runs # <<>> /\ pc = "loop" /\ k > Len(routes)) =>
                  \A r \in runs[Len(runs)].failed :
                      FileName(Strip(r)) \notin dir_list => attempts[r].pass >= 1)
    /\ [][(driver \in OnePassDrivers /\ ev'.status \in FailureCodes) =>
            (fs' = fs /\ pc' = pc /\ k' = k + 1)]_vars

\* C16's case: a route whose request failed in the first run of
\* get_routelines was requested again in the second, which is over and has
\* written its file
C16_Witness ==
    /\ driver = "get_routelines" /\ pc = "done" /\ runs # <<>>
    /\ \E r \in runs[1].failed :
          /\ r \in requested \ failed
          /\ attempts[r].run = 1
          /\ FileName(Strip(r)) \in DOMAIN fs.routelines
          /\ fs.routelines[FileName(Strip(r))] \in Texts

\* the order the script calls the drivers in
CallOrder ==
    { <<"get_route_ids", "get_routelines">>,
      <<"get_routelines", "get_timetables">>,
      <<"get_timetables", "get_stop_lists">> }

\* C17: a run of the script begins with get_route_ids and goes from one
\* driver to the next only when the driver has returned, in the order
\* route ids, routelines, timetables, stop lists, with the route list and
\* the files as the driver left them; the route family map changes only in
\* the step in which get_route_ids returns it, so it is assigned before the
\* first request of get_stop_lists and get_stop_lists leaves it as it is.
C17_Orchestration ==
    /\ driver = "get_route_ids" /\ route_parents = NoMap
    /\ [][(driver' # driver) =>
            /\ pc = "done" /\ pc' = "start"
            /\ <<driver, driver'>> \in CallOrder
            /\ routes' = routes /\ fs' = fs
            /\ route_parents' = route_parents]_vars
    /\ [][(route_parents' # route_parents) =>
            /\ driver = "get_route_ids" /\ driver' = driver
            /\ pc = "loop" /\ pc' = "done"]_vars
    /\ [][(driver = "get_stop_lists") =>
            /\ driver' = driver
            /\ route_parents' = route_parents]_vars

\* C17's case: the script has run to the end of get_stop_lists, which
\* requested a stop list with the map get_route_ids had built from a file
\* it fetched, after routelines and timetables were fetched
C17_Witness ==
    /\ driver = "get_stop_lists" /\ pc = "done"
    /\ requested # {}
    /\ route_parents # NoMap
    /\ fs.routeids # EmptyDir /\ fs.routelines # EmptyDir
    /\ fs.timetables # EmptyDir /\ fs.stops # EmptyDir

\* get_stop_lists is in its loop, the map has the family of every route
\* that was pending when the loop began, and none of them is listed twice
AllResolvable ==
    /\ driver = "get_stop_lists" /\ pc = "loop"
    /\ \A r \in Range(InitialPending) :
          /\ RouteParentName(r) \in DOMAIN route_parents
          /\ Occurrences(InitialPending, r) = 1

\* the last pass of get_stop_lists is over
LastPassOver ==
    pc = "loop" /\ pass = NumPasses /\ k > Len(pending_routes)

\* C18: with every request answered 200 with stops, the family of every
\* pending route in the map and no route pending twice, every route is
\* requested at most once, a requested route leaves the pending list at
\* once, and when the last pass is over the pending list is empty and
\* every route that was pending has been requested; get_stop_lists returns
\* with the list still empty.  While the pending list is empty a pass
\* issues no request and no pacer wait.
C18_AllFetchedOnce ==
    /\ [](AllResolvable =>
            /\ requested \cup Range(pending_routes) = Range(InitialPending)
            /\ requested \cap Range(pending_routes) = {}
            /\ LastPassOver =>
                  (pending_routes = <<>> /\ requested = Range(InitialPending)))
    /\ [][AllResolvable =>
            /\ (ev'.status # 0) => ev'.key \notin requested
            /\ (pending_routes = <<>>) => (ev'.status = 0 /\ ~ev'.paced)
            /\ (pc' = "done") =>
                  (pending_routes' = pending_routes /\ requested' = requested)]_vars

\* C18's case: two routes were pending, get_stop_lists has returned after
\* 99 passes with both requested and none pending
C18_Witness ==
    /\ driver = "get_stop_lists" /\ pc = "done" /\ pass = NumPasses
    /\ Len(routes) = 2
    /\ Cardinality(requested) = 2
    /\ requested = Range(routes)
    /\ pending_routes = <<>>

====
